---- MODULE Spec2Model ----
(***************************************************************************)
(* The LWM2M gateway manager: the CoAP registration handlers of            *)
(* server/lwm2m.ts (LWM2MServer), the persistence functions of             *)
(* server/db.ts they and the operator-facing router call, and the router's *)
(* gateway, command and alert procedures.                                  *)
(*                                                                         *)
(* A nullable column or an optional result is a set: {} is NULL/undefined, *)
(* {x} is the value x.  Every database statement may fail (the connection  *)
(* drops, a lock times out): the db.ts functions catch the failure and     *)
(* return null/void, which is modelled by the statement's outcome input.   *)
(* A handler runs to completion in one step, except in ConcSpec, RaceSpec   *)
(* and IsoSpec, where the registration handlers take one step per await    *)
(* and calls interleave.  ResSpec follows the response object of a CoAP    *)
(* request, InstanceSpec the module's server instance.                     *)
(***************************************************************************)
EXTENDS Integers, Sequences, FiniteSets, TLC

\* The clock (Date.now(), new Date()) runs from 0 to MaxTime.
MaxTime == 2
\* At most MaxCommands rows are inserted in lwm2m_commands, MaxAlerts in alerts.
MaxCommands == 2
MaxAlerts == 2
\* At most MaxValues rows are inserted in lwm2m_resource_values.
MaxValues == 2
\* At most MaxServers LWM2MServer objects are constructed.
MaxServers == 2

\* The endpoint names devices register with (the ?ep= query parameter).
Endpoints == {"e1", "e2"}
\* The remote address of a request (req.rsinfo.address).
Addresses == {"a1"}
\* The lifetimes devices ask for (the ?lt= query parameter).
Lifetimes == {1}
\* Resource ids commands target, and the error text an operator may report.
ResourceIds == {"r1"}
ErrorTexts == {"timeout"}
CommandTypes == {"write"}
Severities == {"warning"}
\* Alert ids are chosen by the caller of createAlert.
AlertIds == {"al1", "al2"}
AlertTypes == {"offline", "low_signal"}
\* The values an operator sets a resource to.
Values == {"v1", "v2"}
\* The requests a device can have in flight at once.
Requests == {"q1", "q2"}
\* The parts of the application that call getLWM2MServer/shutdownLWM2MServer.
Callers == {"c1", "c2"}
\* The methods of a CoAP request.
Methods == {"GET", "POST", "PUT", "DELETE"}

GatewayStatuses == {"online", "offline", "error"}
CommandStatuses == {"pending", "sent", "success", "failed"}
\* What a statement that inserts and then selects the row back can do.
InsertOutcomes == {"ok", "insert_fails", "select_fails"}

VARIABLES
  now,                \* the wall clock
  gateways,           \* table gateways: a set of rows
  registeredClients,  \* LWM2MServer.registeredClients: endpoint -> lastSeen
  requestedLifetime,  \* endpoint -> the lt of its last accepted registration
  commands,           \* table lwm2m_commands: rows in insertion order
  alerts,             \* table alerts: a set of rows
  resourceValues,     \* table lwm2m_resource_values: a set of rows
  requests,           \* the registration requests whose handler is at an await
  res,                \* the response object of the last CoAP request
  lwm2mServerInstance,\* the module's server instance: {} is null
  servers,            \* the LWM2MServer objects constructed so far: their state
  callers,            \* the calls of getLWM2MServer and shutdownLWM2MServer
  last                \* the last request handled: what it was and its outcome

vars == <<now, gateways, registeredClients, requestedLifetime, commands, alerts,
          resourceValues, requests, res, lwm2mServerInstance, servers, callers,
          last>>

\* The response object and the server instance with its callers.
processVars == <<res, lwm2mServerInstance, servers, callers>>

\* `gw-${endpoint}-${Date.now()}`
GatewayId(endpoint, t) == <<"gw", endpoint, t>>
\* A gateway id no row has (an operator may type any string).
UnknownGatewayId == GatewayId("nx", 0)

TheOne(s) == CHOOSE x \in s : TRUE

\* A caller that has no call in progress and no result.
IdleCaller == [pc |-> "idle", target |-> {}, returned |-> {}, returnedState |-> ""]

----------------------------------------------------------------------------
(* db.ts: gateways *)

getGatewayByEndpoint(table, endpoint, ok) ==
  IF ok /\ \E g \in table : g.endpoint = endpoint
  THEN {CHOOSE g \in table : g.endpoint = endpoint}
  ELSE {}

getGateway(table, id, ok) ==
  IF ok /\ \E g \in table : g.id = id
  THEN {CHOOSE g \in table : g.id = id}
  ELSE {}

\* The insert of a gateways table whose endpoint column is not UNIQUE.
createGatewayEndpointNotUnique(table, id, endpoint, ipAddress, outcome) ==
  LET row == [id |-> id, endpoint |-> endpoint, ipAddress |-> ipAddress,
              status |-> "offline", lastSeen |-> {}]
      inserted == /\ outcome # "insert_fails"
                  /\ ~\E g \in table : g.id = id
  IN  [table  |-> IF inserted THEN table \cup {row} ELSE table,
       result |-> IF inserted /\ outcome = "ok" THEN {row} ELSE {}]

\* INSERT (primary key id, UNIQUE endpoint; status defaults to 'offline',
\* lastSeen to NULL), then SELECT the row back.
createGateway(table, id, endpoint, ipAddress, outcome) ==
  LET row == [id |-> id, endpoint |-> endpoint, ipAddress |-> ipAddress,
              status |-> "offline", lastSeen |-> {}]
      inserted == /\ outcome # "insert_fails"
                  /\ ~\E g \in table : g.id = id \/ g.endpoint = endpoint
  IN  [table  |-> IF inserted THEN table \cup {row} ELSE table,
       result |-> IF inserted /\ outcome = "ok" THEN {row} ELSE {}]

\* An UPDATE of gateways without its WHERE clause: it writes every row.
updateGatewayStatusEveryRow(table, id, status, ipAddress, ok) ==
  IF ~ok THEN table
  ELSE { [g EXCEPT !.status = status, !.lastSeen = {now},
                   !.ipAddress = IF ipAddress = {} THEN @ ELSE ipAddress]
         : g \in table }

\* UPDATE gateways SET status, lastSeen = new Date() [, ipAddress] WHERE id;
\* a failure is logged and swallowed.
updateGatewayStatus(table, id, status, ipAddress, ok) ==
  IF ~ok THEN table
  ELSE { IF g.id = id
         THEN [g EXCEPT !.status = status, !.lastSeen = {now},
                        !.ipAddress = IF ipAddress = {} THEN @ ELSE ipAddress]
         ELSE g : g \in table }

----------------------------------------------------------------------------
(* lwm2m.ts: the registration interface *)

Reply(op, arg, result, events) ==
  [op |-> op, arg |-> arg, result |-> result, events |-> events]

MapSet(m, k, v) == [x \in DOMAIN m \cup {k} |-> IF x = k THEN v ELSE m[x]]
MapDelete(m, k) == [x \in DOMAIN m \ {k} |-> m[x]]

isClientRegistered(endpoint) == endpoint \in DOMAIN registeredClients
getRegisteredClients == DOMAIN registeredClients

\* A registration handler that answers a request without ep as a server error.
handleRegistrationMissingEpIsServerError(ep, lt, addr, getOk, createOutcome, updateOk) ==
  IF ep = {}
  THEN /\ last' = Reply("register", ep, "5.00", <<>>)
       /\ UNCHANGED <<gateways, registeredClients, requestedLifetime>>
  ELSE
    LET endpoint == TheOne(ep)
        found    == getGatewayByEndpoint(gateways, endpoint, getOk)
        created  == createGateway(gateways, GatewayId(endpoint, now), endpoint,
                                  {addr}, createOutcome)
        table    == IF found = {} THEN created.table ELSE gateways
        gateway  == IF found = {} THEN created.result ELSE found
    IN  IF gateway = {}
        THEN /\ gateways' = table
             /\ last' = Reply("register", ep, "5.00", <<>>)
             /\ UNCHANGED <<registeredClients, requestedLifetime>>
        ELSE /\ gateways' = updateGatewayStatus(table, TheOne(gateway).id,
                                                "online", {addr}, updateOk)
             /\ registeredClients' = MapSet(registeredClients, endpoint, now)
             /\ requestedLifetime' = MapSet(requestedLifetime, endpoint, lt)
             /\ last' = Reply("register", ep, "2.01",
                   <<[type |-> "client-registered", endpoint |-> endpoint,
                      gatewayId |-> TheOne(gateway).id]>>)

\* A deregistration handler that deletes the gateway row.
handleDeregistrationDeletesRow(ep, getOk, updateOk) ==
  IF ep = {}
  THEN /\ last' = Reply("deregister", ep, "4.00", <<>>)
       /\ UNCHANGED <<gateways, registeredClients, requestedLifetime>>
  ELSE
    LET endpoint == TheOne(ep)
        gateway  == getGatewayByEndpoint(gateways, endpoint, getOk)
    IN  IF gateway = {}
        THEN /\ last' = Reply("deregister", ep, "4.04", <<>>)
             /\ UNCHANGED <<gateways, registeredClients, requestedLifetime>>
        ELSE /\ gateways' = IF updateOk THEN gateways \ gateway ELSE gateways
             /\ registeredClients' = MapDelete(registeredClients, endpoint)
             /\ last' = Reply("deregister", ep, "2.02",
                   <<[type |-> "client-deregistered", endpoint |-> endpoint]>>)
             /\ UNCHANGED requestedLifetime

\* POST /rd?ep=..&lt=..   (ep = {} when the parameter is missing)
handleRegistration(ep, lt, addr, getOk, createOutcome, updateOk) ==
  IF ep = {}
  THEN /\ last' = Reply("register", ep, "4.00", <<>>)
       /\ UNCHANGED <<gateways, registeredClients, requestedLifetime>>
  ELSE
    LET endpoint == TheOne(ep)
        found    == getGatewayByEndpoint(gateways, endpoint, getOk)
        created  == createGateway(gateways, GatewayId(endpoint, now), endpoint,
                                  {addr}, createOutcome)
        table    == IF found = {} THEN created.table ELSE gateways
        gateway  == IF found = {} THEN created.result ELSE found
    IN  IF gateway = {}
        THEN /\ gateways' = table
             /\ last' = Reply("register", ep, "5.00", <<>>)
             /\ UNCHANGED <<registeredClients, requestedLifetime>>
        ELSE /\ gateways' = updateGatewayStatus(table, TheOne(gateway).id,
                                                "online", {addr}, updateOk)
             /\ registeredClients' = MapSet(registeredClients, endpoint, now)
             /\ requestedLifetime' = MapSet(requestedLifetime, endpoint, lt)
             /\ last' = Reply("register", ep, "2.01",
                   <<[type |-> "client-registered", endpoint |-> endpoint,
                      gatewayId |-> TheOne(gateway).id]>>)

\* PUT /rd/<location>?ep=..   (hasLocation: the path has a segment after rd)
handleUpdate(hasLocation, ep, getOk, updateOk) ==
  IF ~hasLocation
  THEN /\ last' = Reply("update", ep, "4.04", <<>>)
       /\ UNCHANGED <<gateways, registeredClients, requestedLifetime>>
  ELSE IF ep = {}
  THEN /\ last' = Reply("update", ep, "4.00", <<>>)
       /\ UNCHANGED <<gateways, registeredClients, requestedLifetime>>
  ELSE
    LET endpoint == TheOne(ep)
        gateway  == getGatewayByEndpoint(gateways, endpoint, getOk)
    IN  IF gateway = {}
        THEN /\ last' = Reply("update", ep, "4.04", <<>>)
             /\ UNCHANGED <<gateways, registeredClients, requestedLifetime>>
        ELSE /\ gateways' = updateGatewayStatus(gateways, TheOne(gateway).id,
                                                "online", {}, updateOk)
             /\ registeredClients' = MapSet(registeredClients, endpoint, now)
             /\ last' = Reply("update", ep, "2.04",
                   <<[type |-> "client-updated", endpoint |-> endpoint]>>)
             /\ UNCHANGED requestedLifetime

\* DELETE /rd?ep=..
handleDeregistration(ep, getOk, updateOk) ==
  IF ep = {}
  THEN /\ last' = Reply("deregister", ep, "4.00", <<>>)
       /\ UNCHANGED <<gateways, registeredClients, requestedLifetime>>
  ELSE
    LET endpoint == TheOne(ep)
        gateway  == getGatewayByEndpoint(gateways, endpoint, getOk)
    IN  IF gateway = {}
        THEN /\ last' = Reply("deregister", ep, "4.04", <<>>)
             /\ UNCHANGED <<gateways, registeredClients, requestedLifetime>>
        ELSE /\ gateways' = updateGatewayStatus(gateways, TheOne(gateway).id,
                                                "offline", {}, updateOk)
             /\ registeredClients' = MapDelete(registeredClients, endpoint)
             /\ last' = Reply("deregister", ep, "2.02",
                   <<[type |-> "client-deregistered", endpoint |-> endpoint]>>)
             /\ UNCHANGED requestedLifetime

Some(S) == {{x} : x \in S}
Opt(S) == {{}} \cup Some(S)

\* The outcomes of an insert-and-select when each statement's outcome is in oks.
InsertOutcomesOf(oks) == IF FALSE \in oks THEN InsertOutcomes ELSE {"ok"}

\* A device (or anyone) sends POST /rd.  eps: the ep parameters the senders
\* use; oks: what the database statements of the request may do.
Register(eps, oks) ==
  /\ \E ep \in eps, lt \in Lifetimes, addr \in Addresses, getOk \in oks,
        createOutcome \in InsertOutcomesOf(oks), updateOk \in oks :
       handleRegistration(ep, lt, addr, getOk, createOutcome, updateOk)
  /\ UNCHANGED <<processVars, now, commands, alerts, resourceValues, requests>>

\* PUT /rd...
Update(eps, oks) ==
  /\ \E hasLocation \in BOOLEAN, ep \in eps, getOk \in oks, updateOk \in oks :
       handleUpdate(hasLocation, ep, getOk, updateOk)
  /\ UNCHANGED <<processVars, now, commands, alerts, resourceValues, requests>>

\* DELETE /rd...
Deregister(eps, oks) ==
  /\ \E ep \in eps, getOk \in oks, updateOk \in oks :
       handleDeregistration(ep, getOk, updateOk)
  /\ UNCHANGED <<processVars, now, commands, alerts, resourceValues, requests>>

\* Time passes.
Tick ==
  /\ now < MaxTime
  /\ now' = now + 1
  /\ UNCHANGED <<processVars, gateways, registeredClients, requestedLifetime, commands, alerts,
                 resourceValues, requests, last>>

----------------------------------------------------------------------------
(* The router: gateways *)

\* gateways.create: the operator adds a gateway by hand.
GatewaysCreate(eps) ==
  /\ \E endpoint \in eps, ipAddress \in Opt(Addresses), outcome \in InsertOutcomes :
       LET created == createGateway(gateways, GatewayId(endpoint, now), endpoint,
                                    ipAddress, outcome)
       IN  /\ gateways' = created.table
           /\ last' = Reply("gateways.create", {endpoint},
                            IF created.result = {} THEN "INTERNAL_SERVER_ERROR"
                            ELSE "ok", <<>>)
  /\ UNCHANGED <<processVars, now, registeredClients, requestedLifetime, commands, alerts,
                 resourceValues, requests>>

\* gateways.updateStatus: the operator sets a gateway's status.
GatewaysUpdateStatus ==
  /\ \E g \in gateways, status \in GatewayStatuses, ipAddress \in Opt(Addresses),
        ok \in BOOLEAN :
       /\ gateways' = updateGatewayStatus(gateways, g.id, status, ipAddress, ok)
       /\ last' = Reply("gateways.updateStatus", {g.endpoint}, "ok", <<>>)
  /\ UNCHANGED <<processVars, now, registeredClients, requestedLifetime, commands, alerts,
                 resourceValues, requests>>

----------------------------------------------------------------------------
(* db.ts and the router: commands *)

\* `cmd-${gatewayId}-${resourceId}-${Date.now()}`
CommandId(gatewayId, resourceId, t) == <<"cmd", gatewayId, resourceId, t>>

\* INSERT (primary key id; status defaults to 'pending', createdAt to now,
\* error and completedAt to NULL), then SELECT the row back.
createCommand(table, id, gatewayId, resourceId, commandType, outcome) ==
  LET row == [id |-> id, gatewayId |-> gatewayId, resourceId |-> resourceId,
              commandType |-> commandType, status |-> "pending", error |-> {},
              createdAt |-> now, completedAt |-> {}]
      inserted == /\ outcome # "insert_fails"
                  /\ ~\E i \in DOMAIN table : table[i].id = id
  IN  [table  |-> IF inserted THEN Append(table, row) ELSE table,
       result |-> IF inserted /\ outcome = "ok" THEN {row} ELSE {}]

getCommand(table, id) ==
  IF \E i \in DOMAIN table : table[i].id = id
  THEN {table[CHOOSE i \in DOMAIN table : table[i].id = id]}
  ELSE {}

\* UPDATE lwm2m_commands SET status [, error] [, completedAt] WHERE id;
\* a failure is logged and swallowed.
updateCommandStatus(table, id, status, error, ok) ==
  IF ~ok THEN table
  ELSE [i \in DOMAIN table |->
          IF table[i].id = id
          THEN [table[i] EXCEPT
                  !.status = status,
                  !.error = IF error = {} THEN @ ELSE error,
                  !.completedAt = IF status \in {"success", "failed"}
                                  THEN {now} ELSE @]
          ELSE table[i]]

\* The rows SELECT ... WHERE gatewayId AND status = 'pending' finds.
PendingRows(table, gatewayId) ==
  {i \in DOMAIN table : table[i].gatewayId = gatewayId /\ table[i].status = "pending"}

\* listPendingCommands: the statement has no ORDER BY, so the rows come in
\* whatever order the database produces: every arrangement of them is a
\* possible result.
listPendingCommands(table, gatewayId) ==
  LET rows == PendingRows(table, gatewayId)
      n    == Cardinality(rows)
  IN  {[k \in 1..n |-> table[f[k]]] :
         f \in {g \in [1..n -> rows] : \A a, b \in 1..n : a # b => g[a] # g[b]}}

\* The gateway ids an operator may name: those of the table and one of no row.
KnownGatewayIds == {g.id : g \in gateways}

\* commands.create
CommandsCreate ==
  /\ Len(commands) < MaxCommands
  /\ \E gatewayId \in KnownGatewayIds \cup {UnknownGatewayId},
        resourceId \in ResourceIds, commandType \in CommandTypes,
        outcome \in InsertOutcomes :
       LET created == createCommand(commands, CommandId(gatewayId, resourceId, now),
                                    gatewayId, resourceId, commandType, outcome)
       IN  /\ commands' = created.table
           /\ last' = Reply("commands.create", {},
                            IF created.result = {} THEN "INTERNAL_SERVER_ERROR"
                            ELSE "ok", <<>>)
  /\ UNCHANGED <<processVars, now, gateways, registeredClients, requestedLifetime, alerts,
                 resourceValues, requests>>

\* commands.updateStatus
CommandsUpdateStatus ==
  /\ \E i \in DOMAIN commands, status \in CommandStatuses,
        error \in Opt(ErrorTexts), ok \in BOOLEAN :
       /\ commands' = updateCommandStatus(commands, commands[i].id, status, error, ok)
       /\ last' = Reply("commands.updateStatus", {}, "ok", <<>>)
  /\ UNCHANGED <<processVars, now, gateways, registeredClients, requestedLifetime, alerts,
                 resourceValues, requests>>

----------------------------------------------------------------------------
(* db.ts and the router: alerts *)

\* INSERT (primary key id; isResolved defaults to false, resolvedAt to NULL),
\* then SELECT the row back.
createAlert(table, id, gatewayId, alertType, severity, outcome) ==
  LET row == [id |-> id, gatewayId |-> gatewayId, alertType |-> alertType,
              severity |-> severity, isResolved |-> FALSE, resolvedAt |-> {}]
      inserted == /\ outcome # "insert_fails"
                  /\ ~\E a \in table : a.id = id
  IN  [table  |-> IF inserted THEN table \cup {row} ELSE table,
       result |-> IF inserted /\ outcome = "ok" THEN {row} ELSE {}]

\* listAlerts(gatewayId, unresolved)
listAlerts(table, gatewayId, unresolved) ==
  {a \in table : /\ (gatewayId = {} \/ {a.gatewayId} = gatewayId)
                 /\ (unresolved => ~a.isResolved)}

\* UPDATE alerts SET isResolved = true, resolvedAt = new Date() WHERE id
resolveAlert(table, alertId, ok) ==
  IF ~ok THEN table
  ELSE { IF a.id = alertId
         THEN [a EXCEPT !.isResolved = TRUE, !.resolvedAt = {now}]
         ELSE a : a \in table }

\* A caller of createAlert raises an alert.
CreateAlert ==
  /\ Cardinality(alerts) < MaxAlerts
  /\ \E id \in AlertIds, gatewayId \in KnownGatewayIds \cup {UnknownGatewayId},
        alertType \in AlertTypes, severity \in Severities,
        outcome \in InsertOutcomes :
       LET created == createAlert(alerts, id, gatewayId, alertType, severity, outcome)
       IN  /\ alerts' = created.table
           /\ last' = Reply("createAlert", {},
                            IF created.result = {} THEN "null" ELSE "ok", <<>>)
  /\ UNCHANGED <<processVars, now, gateways, registeredClients, requestedLifetime, commands,
                 resourceValues, requests>>

\* alerts.resolve
AlertsResolve ==
  /\ \E a \in alerts, ok \in BOOLEAN :
       /\ alerts' = resolveAlert(alerts, a.id, ok)
       /\ last' = Reply("alerts.resolve", {}, "ok", <<>>)
  /\ UNCHANGED <<processVars, now, gateways, registeredClients, requestedLifetime, commands,
                 resourceValues, requests>>

----------------------------------------------------------------------------
(* db.ts and the router: resource values *)

\* `${input.resourceId}-${Date.now()}`
ResourceValueId(resourceId, t) == <<"rv", resourceId, t>>

\* INSERT (primary key id; timestamp defaults to now when the caller gives
\* none), then SELECT the row back.
recordResourceValue(table, id, resourceId, gatewayId, value, timestamp, outcome) ==
  LET row == [id |-> id, resourceId |-> resourceId, gatewayId |-> gatewayId,
              value |-> value,
              timestamp |-> IF timestamp = {} THEN now ELSE TheOne(timestamp)]
      inserted == /\ outcome # "insert_fails"
                  /\ ~\E v \in table : v.id = id
  IN  [table  |-> IF inserted THEN table \cup {row} ELSE table,
       result |-> IF inserted /\ outcome = "ok" THEN {row} ELSE {}]

\* SELECT .. WHERE resourceId ORDER BY timestamp LIMIT 1: the first row in
\* ascending timestamp order.  The rows the query can return (any of the
\* rows that tie for first); {} when it returns null.
getLatestResourceValue(table, resourceId, ok) ==
  IF ~ok THEN {}
  ELSE LET rows == {v \in table : v.resourceId = resourceId}
       IN  {v \in rows : \A w \in rows : v.timestamp <= w.timestamp}

\* resources.setValue
ResourcesSetValue ==
  /\ Cardinality(resourceValues) < MaxValues
  /\ \E resourceId \in ResourceIds, gatewayId \in KnownGatewayIds \cup {UnknownGatewayId},
        value \in Values, outcome \in InsertOutcomes :
       LET recorded == recordResourceValue(resourceValues,
                         ResourceValueId(resourceId, now), resourceId, gatewayId,
                         value, {}, outcome)
       IN  /\ resourceValues' = recorded.table
           /\ last' = Reply("resources.setValue", {},
                            IF recorded.result = {} THEN "INTERNAL_SERVER_ERROR"
                            ELSE "ok", <<>>)
  /\ UNCHANGED <<processVars, now, gateways, registeredClients, requestedLifetime, commands,
                 alerts, requests>>

----------------------------------------------------------------------------
(* lwm2m.ts: handleRegistration, one step per await *)

IdleRequest ==
  [pc |-> "idle", endpoint |-> "", lt |-> 0, addr |-> "", gatewayId |-> {},
   result |-> ""]

RequestAt(q, pc) == requests[q].pc = pc

OnlyRequests ==
  UNCHANGED <<processVars, now, gateways, registeredClients, requestedLifetime, commands, alerts,
              resourceValues, last>>

\* POST /rd arrives; the handler parses it and calls getGatewayByEndpoint.
RegistrationReceived(q, eps) ==
  /\ requests[q].pc \in {"idle", "done"}
  /\ \E ep \in eps, lt \in Lifetimes, addr \in Addresses :
       requests' = [requests EXCEPT ![q] =
         IF ep = {}
         THEN [IdleRequest EXCEPT !.pc = "done", !.result = "4.00"]
         ELSE [IdleRequest EXCEPT !.pc = "lookup", !.endpoint = TheOne(ep),
                                  !.lt = lt, !.addr = addr]]
  /\ OnlyRequests

\* await getGatewayByEndpoint(endpoint)
RegistrationLookup(q, oks) ==
  /\ RequestAt(q, "lookup")
  /\ \E getOk \in oks :
       LET found == getGatewayByEndpoint(gateways, requests[q].endpoint, getOk)
       IN  requests' = [requests EXCEPT ![q] =
             IF found = {} THEN [@ EXCEPT !.pc = "create"]
             ELSE [@ EXCEPT !.pc = "write", !.gatewayId = {TheOne(found).id}]]
  /\ OnlyRequests

\* await createGateway(..); without a gateway the handler answers 5.00.
RegistrationCreate(q, oks) ==
  /\ RequestAt(q, "create")
  /\ \E createOutcome \in InsertOutcomesOf(oks) :
       LET created == createGateway(gateways, GatewayId(requests[q].endpoint, now),
                                    requests[q].endpoint, {requests[q].addr},
                                    createOutcome)
       IN  /\ gateways' = created.table
           /\ IF created.result = {}
              THEN /\ requests' = [requests EXCEPT ![q].pc = "done",
                                                   ![q].result = "5.00"]
                   /\ last' = Reply("register", {requests[q].endpoint}, "5.00", <<>>)
              ELSE /\ requests' = [requests EXCEPT ![q].pc = "write",
                          ![q].gatewayId = {TheOne(created.result).id}]
                   /\ UNCHANGED last
  /\ UNCHANGED <<processVars, now, registeredClients, requestedLifetime, commands, alerts,
                 resourceValues>>

\* await updateGatewayStatus(gateway.id, "online", remoteAddress)
RegistrationWrite(q, oks) ==
  /\ RequestAt(q, "write")
  /\ \E updateOk \in oks :
       gateways' = updateGatewayStatus(gateways, TheOne(requests[q].gatewayId),
                                       "online", {requests[q].addr}, updateOk)
  /\ requests' = [requests EXCEPT ![q].pc = "respond"]
  /\ UNCHANGED <<processVars, now, registeredClients, requestedLifetime, commands, alerts,
                 resourceValues, last>>

\* registeredClients.set, res.code = "2.01", emit("client-registered")
RegistrationRespond(q) ==
  /\ RequestAt(q, "respond")
  /\ registeredClients' = MapSet(registeredClients, requests[q].endpoint, now)
  /\ requestedLifetime' = MapSet(requestedLifetime, requests[q].endpoint,
                                 requests[q].lt)
  /\ last' = Reply("register", {requests[q].endpoint}, "2.01",
                   <<[type |-> "client-registered", endpoint |-> requests[q].endpoint,
                      gatewayId |-> TheOne(requests[q].gatewayId)]>>)
  /\ requests' = [requests EXCEPT ![q].pc = "done", ![q].result = "2.01"]
  /\ UNCHANGED <<processVars, now, gateways, commands, alerts, resourceValues>>

----------------------------------------------------------------------------
(* lwm2m.ts: handleUpdate and handleDeregistration, one step per await *)

\* PUT /rd.. arrives; the handler checks the path and the ep parameter and
\* calls getGatewayByEndpoint.
UpdateReceived(q, eps) ==
  /\ requests[q].pc \in {"idle", "done"}
  /\ \E hasLocation \in BOOLEAN, ep \in eps :
       requests' = [requests EXCEPT ![q] =
         IF ~hasLocation
         THEN [IdleRequest EXCEPT !.pc = "done", !.result = "4.04"]
         ELSE IF ep = {}
         THEN [IdleRequest EXCEPT !.pc = "done", !.result = "4.00"]
         ELSE [IdleRequest EXCEPT !.pc = "update_lookup", !.endpoint = TheOne(ep)]]
  /\ OnlyRequests

\* await getGatewayByEndpoint(endpoint); without a gateway the handler
\* answers 4.04.
UpdateLookup(q, oks) ==
  /\ RequestAt(q, "update_lookup")
  /\ \E getOk \in oks :
       LET found == getGatewayByEndpoint(gateways, requests[q].endpoint, getOk)
       IN  IF found = {}
           THEN /\ requests' = [requests EXCEPT ![q].pc = "done",
                                                ![q].result = "4.04"]
                /\ last' = Reply("update", {requests[q].endpoint}, "4.04", <<>>)
           ELSE /\ requests' = [requests EXCEPT ![q].pc = "update_write",
                                   ![q].gatewayId = {TheOne(found).id}]
                /\ UNCHANGED last
  /\ UNCHANGED <<processVars, now, gateways, registeredClients, requestedLifetime, commands,
                 alerts, resourceValues>>

\* await updateGatewayStatus(gateway.id, "online")
UpdateWrite(q, oks) ==
  /\ RequestAt(q, "update_write")
  /\ \E updateOk \in oks :
       gateways' = updateGatewayStatus(gateways, TheOne(requests[q].gatewayId),
                                       "online", {}, updateOk)
  /\ requests' = [requests EXCEPT ![q].pc = "update_respond"]
  /\ UNCHANGED <<processVars, now, registeredClients, requestedLifetime, commands, alerts,
                 resourceValues, last>>

\* registeredClients.set, res.code = "2.04", emit("client-updated")
UpdateRespond(q) ==
  /\ RequestAt(q, "update_respond")
  /\ registeredClients' = MapSet(registeredClients, requests[q].endpoint, now)
  /\ last' = Reply("update", {requests[q].endpoint}, "2.04",
                   <<[type |-> "client-updated", endpoint |-> requests[q].endpoint]>>)
  /\ requests' = [requests EXCEPT ![q].pc = "done", ![q].result = "2.04"]
  /\ UNCHANGED <<processVars, now, gateways, requestedLifetime, commands, alerts, resourceValues>>

\* DELETE /rd.. arrives; the handler checks the ep parameter and calls
\* getGatewayByEndpoint.
DeregistrationReceived(q, eps) ==
  /\ requests[q].pc \in {"idle", "done"}
  /\ \E ep \in eps :
       requests' = [requests EXCEPT ![q] =
         IF ep = {}
         THEN [IdleRequest EXCEPT !.pc = "done", !.result = "4.00"]
         ELSE [IdleRequest EXCEPT !.pc = "deregister_lookup",
                                  !.endpoint = TheOne(ep)]]
  /\ OnlyRequests

\* await getGatewayByEndpoint(endpoint); without a gateway the handler
\* answers 4.04.
DeregistrationLookup(q, oks) ==
  /\ RequestAt(q, "deregister_lookup")
  /\ \E getOk \in oks :
       LET found == getGatewayByEndpoint(gateways, requests[q].endpoint, getOk)
       IN  IF found = {}
           THEN /\ requests' = [requests EXCEPT ![q].pc = "done",
                                                ![q].result = "4.04"]
                /\ last' = Reply("deregister", {requests[q].endpoint}, "4.04", <<>>)
           ELSE /\ requests' = [requests EXCEPT ![q].pc = "deregister_write",
                                   ![q].gatewayId = {TheOne(found).id}]
                /\ UNCHANGED last
  /\ UNCHANGED <<processVars, now, gateways, registeredClients, requestedLifetime, commands,
                 alerts, resourceValues>>

\* await updateGatewayStatus(gateway.id, "offline")
DeregistrationWrite(q, oks) ==
  /\ RequestAt(q, "deregister_write")
  /\ \E updateOk \in oks :
       gateways' = updateGatewayStatus(gateways, TheOne(requests[q].gatewayId),
                                       "offline", {}, updateOk)
  /\ requests' = [requests EXCEPT ![q].pc = "deregister_respond"]
  /\ UNCHANGED <<processVars, now, registeredClients, requestedLifetime, commands, alerts,
                 resourceValues, last>>

\* registeredClients.delete, res.code = "2.02", emit("client-deregistered")
DeregistrationRespond(q) ==
  /\ RequestAt(q, "deregister_respond")
  /\ registeredClients' = MapDelete(registeredClients, requests[q].endpoint)
  /\ last' = Reply("deregister", {requests[q].endpoint}, "2.02",
                   <<[type |-> "client-deregistered",
                      endpoint |-> requests[q].endpoint]>>)
  /\ requests' = [requests EXCEPT ![q].pc = "done", ![q].result = "2.02"]
  /\ UNCHANGED <<processVars, now, gateways, requestedLifetime, commands, alerts, resourceValues>>

----------------------------------------------------------------------------
(* lwm2m.ts: handleCoapRequest and the response object *)

\* handleResourceRequest: the code it answers (hasResource: the path has an
\* object and a resource segment).
handleResourceRequest(method, hasResource) ==
  IF ~hasResource THEN "4.04"
  ELSE IF method = "GET" THEN "2.05"
  ELSE IF method = "PUT" THEN "2.04"
  ELSE "4.05"

\* What has happened to the response object when handleCoapRequest is done.
\* Every path of the handlers sets res.code and calls res.end() once.  The
\* success paths then call emit() inside the handler's try block: emit runs
\* the listeners synchronously, so a listener's exception reaches the
\* handler's catch, which sets 5.00 and calls res.end() again.
Respond(listenerThrows) ==
  res' = IF listenerThrows /\ last'.events # <<>>
         THEN [code |-> "5.00", ended |-> 2]
         ELSE [code |-> last'.result, ended |-> 1]

\* A CoAP request arrives and handleCoapRequest runs to its end: POST, PUT,
\* DELETE and another method on a path that starts with /rd, and any method
\* on another path.  eps: the ep parameters the senders use.
CoapRequest(eps) ==
  /\ \E listenerThrows \in BOOLEAN :
       \/ \E ep \in eps, lt \in Lifetimes, addr \in Addresses, getOk \in BOOLEAN,
             createOutcome \in InsertOutcomes, updateOk \in BOOLEAN :
            /\ handleRegistration(ep, lt, addr, getOk, createOutcome, updateOk)
            /\ Respond(listenerThrows)
       \/ \E hasLocation \in BOOLEAN, ep \in eps, getOk \in BOOLEAN,
             updateOk \in BOOLEAN :
            /\ handleUpdate(hasLocation, ep, getOk, updateOk)
            /\ Respond(listenerThrows)
       \/ \E ep \in eps, getOk \in BOOLEAN, updateOk \in BOOLEAN :
            /\ handleDeregistration(ep, getOk, updateOk)
            /\ Respond(listenerThrows)
       \/ /\ last' = Reply("GET /rd", {}, "4.04", <<>>)
          /\ UNCHANGED <<gateways, registeredClients, requestedLifetime>>
          /\ Respond(listenerThrows)
       \/ \E method \in Methods, hasResource \in BOOLEAN :
            /\ last' = Reply("resource", {}, handleResourceRequest(method, hasResource),
                             <<>>)
            /\ UNCHANGED <<gateways, registeredClients, requestedLifetime>>
            /\ Respond(listenerThrows)
  /\ UNCHANGED <<now, commands, alerts, resourceValues, requests,
                 lwm2mServerInstance, servers, callers>>

----------------------------------------------------------------------------
(* lwm2m.ts: getLWM2MServer and shutdownLWM2MServer *)

dataVars ==
  <<now, gateways, registeredClients, requestedLifetime, commands, alerts,
    resourceValues, requests, res, last>>

\* The caller is not inside a call.
Settled(c) == callers[c].pc \in {"idle", "returned", "threw", "done"}

\* What a caller that is handed the value of lwm2mServerInstance gets.
Returned(instance, states) ==
  [pc |-> "returned", target |-> {}, returned |-> instance,
   returnedState |-> IF instance = {} THEN "null" ELSE states[TheOne(instance)]]

\* getLWM2MServer() up to its await: without an instance it constructs one,
\* stores it and calls start(); with one it returns it at once.
GetServerCalled(c) ==
  /\ Settled(c)
  /\ IF lwm2mServerInstance = {}
     THEN /\ Len(servers) < MaxServers
          /\ servers' = Append(servers, "starting")
          /\ lwm2mServerInstance' = {Len(servers) + 1}
          /\ callers' = [callers EXCEPT ![c] =
                           [IdleCaller EXCEPT !.pc = "await_start",
                                              !.target = {Len(servers) + 1}]]
     ELSE /\ callers' = [callers EXCEPT ![c] =
                           Returned(lwm2mServerInstance, servers)]
          /\ UNCHANGED <<servers, lwm2mServerInstance>>
  /\ UNCHANGED dataVars

\* start() settles: the server listens and getLWM2MServer returns the value
\* lwm2mServerInstance has now, or start() is rejected and getLWM2MServer
\* throws.  (The start() of a server that was closed meanwhile stays pending.)
StartSettled(c) ==
  /\ callers[c].pc = "await_start"
  /\ servers[TheOne(callers[c].target)] = "starting"
  /\ \E ok \in BOOLEAN :
       IF ok
       THEN /\ servers' = [servers EXCEPT ![TheOne(callers[c].target)] = "listening"]
            /\ callers' = [callers EXCEPT ![c] =
                             Returned(lwm2mServerInstance, servers')]
       ELSE /\ servers' = [servers EXCEPT ![TheOne(callers[c].target)] = "failed"]
            /\ callers' = [callers EXCEPT ![c] = [IdleCaller EXCEPT !.pc = "threw"]]
  /\ UNCHANGED lwm2mServerInstance
  /\ UNCHANGED dataVars

\* shutdownLWM2MServer() up to its await: with an instance it calls stop().
ShutdownCalled(c) ==
  /\ Settled(c)
  /\ callers' = [callers EXCEPT ![c] =
       IF lwm2mServerInstance = {}
       THEN [IdleCaller EXCEPT !.pc = "done"]
       ELSE [IdleCaller EXCEPT !.pc = "await_stop", !.target = lwm2mServerInstance]]
  /\ UNCHANGED <<servers, lwm2mServerInstance>>
  /\ UNCHANGED dataVars

\* stop() settles and shutdownLWM2MServer sets lwm2mServerInstance = null.
StopSettled(c) ==
  /\ callers[c].pc = "await_stop"
  /\ servers' = [servers EXCEPT ![TheOne(callers[c].target)] =
                   IF @ = "failed" THEN @ ELSE "stopped"]
  /\ lwm2mServerInstance' = {}
  /\ callers' = [callers EXCEPT ![c] = [IdleCaller EXCEPT !.pc = "done"]]
  /\ UNCHANGED dataVars

----------------------------------------------------------------------------

Init ==
  /\ now = 0
  /\ gateways = {}
  /\ registeredClients = << >>
  /\ requestedLifetime = << >>
  /\ commands = << >>
  /\ alerts = {}
  /\ resourceValues = {}
  /\ requests = [q \in Requests |-> IdleRequest]
  /\ res = [code |-> "", ended |-> 0]
  /\ lwm2mServerInstance = {}
  /\ servers = << >>
  /\ callers = [c \in Callers |-> IdleCaller]
  /\ last = Reply("start", {}, "", <<>>)

\* One device, whose requests may lack the ep parameter, the operator's
\* gateway procedures, and a database whose statements may fail.
Device == {"e1"}

Next ==
  \/ Register(Opt(Device), BOOLEAN)
  \/ Update(Opt(Device), BOOLEAN)
  \/ Deregister(Opt(Device), BOOLEAN)
  \/ GatewaysCreate(Device)
  \/ GatewaysUpdateStatus
  \/ Tick

Spec == Init /\ [][Next]_vars

\* Time does not stop.
FairSpec == Spec /\ WF_vars(Tick)

\* The command procedures (their statements may fail), with a device that
\* registers and deregisters.
CmdNext ==
  \/ CommandsCreate
  \/ CommandsUpdateStatus
  \/ Register(Some(Device), {TRUE})
  \/ Deregister(Some(Device), {TRUE})
  \/ Tick

CmdSpec == Init /\ [][CmdNext]_vars

\* The alert functions (their statements may fail), with a device that
\* registers, updates and deregisters.
AlertNext ==
  \/ CreateAlert
  \/ AlertsResolve
  \/ Register(Some(Device), {TRUE})
  \/ Update(Some(Device), {TRUE})
  \/ Deregister(Some(Device), {TRUE})
  \/ Tick

AlertSpec == Init /\ [][AlertNext]_vars

\* The resource value procedures (their statements may fail), with a device
\* that registers.
ValueNext ==
  \/ ResourcesSetValue
  \/ Register(Some(Device), {TRUE})
  \/ Tick

ValueSpec == Init /\ [][ValueNext]_vars

\* Registration requests of one device that overlap: each await of
\* handleRegistration is a step and the steps of the requests interleave.  No
\* database statement fails for a reason of its own.
ConcNext ==
  \/ \E q \in Requests : RegistrationReceived(q, Some(Device))
  \/ \E q \in Requests : RegistrationLookup(q, {TRUE})
  \/ \E q \in Requests : RegistrationCreate(q, {TRUE})
  \/ \E q \in Requests : RegistrationWrite(q, {TRUE})
  \/ \E q \in Requests : RegistrationRespond(q)
  \/ Tick

ConcSpec == Init /\ [][ConcNext]_vars

\* Register, update and deregister requests qs of the devices in eps, each
\* handler taking one step per await, interleaved.  No database statement
\* fails for a reason of its own.
RequestSteps(qs, eps) ==
  \/ \E q \in qs : RegistrationReceived(q, Some(eps))
  \/ \E q \in qs : RegistrationLookup(q, {TRUE})
  \/ \E q \in qs : RegistrationCreate(q, {TRUE})
  \/ \E q \in qs : RegistrationWrite(q, {TRUE})
  \/ \E q \in qs : RegistrationRespond(q)
  \/ \E q \in qs : UpdateReceived(q, Some(eps))
  \/ \E q \in qs : UpdateLookup(q, {TRUE})
  \/ \E q \in qs : UpdateWrite(q, {TRUE})
  \/ \E q \in qs : UpdateRespond(q)
  \/ \E q \in qs : DeregistrationReceived(q, Some(eps))
  \/ \E q \in qs : DeregistrationLookup(q, {TRUE})
  \/ \E q \in qs : DeregistrationWrite(q, {TRUE})
  \/ \E q \in qs : DeregistrationRespond(q)

\* The requests of one device overlap.
RaceNext ==
  \/ RequestSteps(Requests, Device)
  \/ Tick

RaceSpec == Init /\ [][RaceNext]_vars

\* CoAP requests of every kind, one at a time, with a database whose
\* statements may fail and event listeners that may throw.
ResNext ==
  \/ CoapRequest(Opt(Device))
  \/ Tick

ResSpec == Init /\ [][ResNext]_vars

\* The application's calls of getLWM2MServer and shutdownLWM2MServer, which
\* overlap at their awaits.
InstanceNext ==
  \/ \E c \in Callers : GetServerCalled(c)
  \/ \E c \in Callers : StartSettled(c)
  \/ \E c \in Callers : ShutdownCalled(c)
  \/ \E c \in Callers : StopSettled(c)

InstanceSpec == Init /\ [][InstanceNext]_vars

\* The requests of two devices overlap: one request at a time for each.
IsoNext ==
  \/ RequestSteps({"q1"}, {"e1"})
  \/ RequestSteps({"q2"}, {"e2"})
  \/ Tick

IsoSpec == Init /\ [][IsoNext]_vars

----------------------------------------------------------------------------
(* The registry's vocabulary, read off the code's state *)

\* The gateway record of an endpoint (getGatewayByEndpoint without a failure).
GatewayOf(endpoint) == getGatewayByEndpoint(gateways, endpoint, TRUE)

\* The endpoint is Registered: it is in the server's registered set.
Registered(endpoint) == isClientRegistered(endpoint)

\* The device a command or an alert names is known and not Registered.
KnownUnregistered(gatewayId) ==
  \E g \in gateways : g.id = gatewayId /\ ~Registered(g.endpoint)

\* The registered device has outlived the lifetime it asked for.
Expired(endpoint) ==
  /\ Registered(endpoint)
  /\ endpoint \in DOMAIN requestedLifetime
  /\ now - registeredClients[endpoint] > requestedLifetime[endpoint]

\* The position of a command row in submission (insertion) order.
Submitted(id) == CHOOSE i \in DOMAIN commands : commands[i].id = id

UnresolvedAlerts(gatewayId, alertType) ==
  {a \in listAlerts(alerts, {gatewayId}, TRUE) : a.alertType = alertType}

\* The device is Registered in both of the code's representations: in the
\* registered set, with a gateway record that is online.
RegisteredOnline(endpoint) ==
  /\ Registered(endpoint)
  /\ \E g \in gateways : g.endpoint = endpoint /\ g.status = "online"

\* The request's handler is suspended at an await.
InFlight(q) == requests[q].pc \notin {"idle", "done"}

\* The continuation of request q's handler after the await it is at.
Resume(q) ==
  \/ RegistrationLookup(q, {TRUE})
  \/ RegistrationCreate(q, {TRUE})
  \/ RegistrationWrite(q, {TRUE})
  \/ RegistrationRespond(q)
  \/ UpdateLookup(q, {TRUE})
  \/ UpdateWrite(q, {TRUE})
  \/ UpdateRespond(q)
  \/ DeregistrationLookup(q, {TRUE})
  \/ DeregistrationWrite(q, {TRUE})
  \/ DeregistrationRespond(q)

\* What the server holds about an endpoint: its gateway records and its
\* entry in the registered set.
DeviceState(endpoint) ==
  [records    |-> {g \in gateways : g.endpoint = endpoint},
   registered |-> IF endpoint \in DOMAIN registeredClients
                  THEN {registeredClients[endpoint]} ELSE {}]

----------------------------------------------------------------------------
(* Claims *)

\* C1: right after a register for endpoint E that was answered 2.01, E is
\* in the registered set and E's gateway record has status "online".
C1_RegisteredAfterRegister ==
  \A e \in Endpoints :
    (last.op = "register" /\ last.arg = {e} /\ last.result = "2.01")
      => /\ Registered(e)
         /\ GatewayOf(e) # {}
         /\ TheOne(GatewayOf(e)).status = "online"

\* C2: an update for an endpoint that is not Registered (never registered,
\* or deregistered) is answered 4.04 (NotFound), emits no event and leaves
\* the gateway records and the registered set as they were.
C2_RefreshUnregisteredNotFound ==
  [][\A e \in Endpoints :
       (~Registered(e) /\ Update({{e}}, BOOLEAN))
         => /\ last'.result = "4.04"
            /\ last'.events = <<>>
            /\ UNCHANGED <<gateways, registeredClients>>]_vars

\* C3: a command's status moves only pending -> sent -> {success, failed},
\* or sent -> pending (a retry); a success or failed command keeps its status.
C3_StatusMonotonic ==
  [][\A i \in DOMAIN commands :
       \/ commands'[i].status = commands[i].status
       \/ <<commands[i].status, commands'[i].status>> \in
            {<<"pending", "sent">>, <<"sent", "success">>,
             <<"sent", "failed">>, <<"sent", "pending">>}]_vars

\* C4: whatever listPendingCommands returns for a Registered device lists
\* the device's pending commands in submission order.
C4_PendingInSubmissionOrder ==
  \A g \in gateways :
    Registered(g.endpoint) =>
      \A result \in listPendingCommands(commands, g.id) :
        \A a, b \in DOMAIN result :
          a < b => Submitted(result[a].id) < Submitted(result[b].id)

\* C5: while its device is known and not Registered, a pending command
\* stays pending.
C5_UnregisteredYieldsNothing ==
  [][\A i \in DOMAIN commands :
       (commands[i].status = "pending" /\ KnownUnregistered(commands[i].gatewayId))
         => commands'[i].status = "pending"]_vars

\* C6: a failed command never becomes pending or sent again.
C6_FailedNeverRetried ==
  [][\A i \in DOMAIN commands :
       commands[i].status = "failed"
         => commands'[i].status \notin {"pending", "sent"}]_vars

\* C7: every command names a device that has a gateway record (a submit for
\* an unknown device creates no command).
C7_CommandsNameKnownDevices ==
  \A i \in DOMAIN commands : \E g \in gateways : g.id = commands[i].gatewayId

\* C8: a registered device that has outlived its lifetime is eventually no
\* longer listed as registered (or has been heard from again).
C8_ExpiredEventuallyUnlisted ==
  \A e \in Endpoints : Expired(e) ~> ~Expired(e)

\* C9: a device has at most one unresolved alert of each alert type.
C9_OneUnresolvedAlertPerType ==
  \A g \in gateways, alertType \in AlertTypes :
    Cardinality(UnresolvedAlerts(g.id, alertType)) <= 1

\* C10: when a device that was not Registered becomes Registered, it has no
\* unresolved offline alert afterwards.
C10_OfflineAlertResolvedOnReturn ==
  [][\A e \in Endpoints :
       (~Registered(e) /\ Registered(e)')
         => \A g \in gateways' : g.endpoint = e =>
              ~\E a \in alerts' :
                 a.gatewayId = g.id /\ a.alertType = "offline" /\ ~a.isResolved]_vars

\* C11: a register for an endpoint that is already Registered emits no
\* client-registered event (the event marks only the transition into
\* Registered).
C11_RegisteredEventOncePerTransition ==
  [][\A e \in Endpoints :
       (Registered(e) /\ Register({{e}}, BOOLEAN))
         => \A i \in DOMAIN last'.events :
              last'.events[i].type # "client-registered"]_vars

\* C12: a deregister for an endpoint whose previous request was a deregister
\* answered 2.02 is answered 2.02 again, emits no event and leaves the
\* gateway records and the registered set as the first deregister left them.
C12_DeregisterIdempotent ==
  [][\A e \in Endpoints :
       ( /\ last.op = "deregister" /\ last.arg = {e} /\ last.result = "2.02"
         /\ Deregister({{e}}, BOOLEAN) )
         => /\ last'.result = "2.02"
            /\ last'.events = <<>>
            /\ UNCHANGED <<gateways, registeredClients>>]_vars

\* C13: no two gateway records have the same endpoint.
C13_EndpointUnique ==
  \A g1, g2 \in gateways : g1.endpoint = g2.endpoint => g1 = g2

\* An operator's gateways.create for an endpoint that has a record made at an
\* earlier time was refused.
C13_Witness ==
  /\ last.op = "gateways.create" /\ last.result = "INTERNAL_SERVER_ERROR"
  /\ \E g \in gateways :
       /\ {g.endpoint} = last.arg
       /\ g.id # GatewayId(g.endpoint, now)
       /\ Registered(g.endpoint)

\* C14: when no database statement fails for a reason of its own, every
\* register request that has been answered, overlapping another or not, was
\* answered 2.01, and the endpoint has at most one gateway record.
C14_OverlappingRegistersSucceed ==
  \A q \in Requests :
    RequestAt(q, "done")
      => /\ requests[q].result = "2.01"
         /\ Cardinality({g \in gateways : g.endpoint = requests[q].endpoint}) <= 1

\* C15: whatever getLatestResourceValue returns for a resource is a value
\* whose timestamp no other value of the resource exceeds, and it returns
\* null only when the resource has no value.
C15_LatestHasGreatestTimestamp ==
  \A resourceId \in ResourceIds :
    LET rows == {v \in resourceValues : v.resourceId = resourceId}
        latest == getLatestResourceValue(resourceValues, resourceId, TRUE)
    IN  /\ \A v \in latest : \A w \in rows : w.timestamp <= v.timestamp
        /\ latest = {} => rows = {}

\* C16: a resolved alert keeps its row as it is: no later resolve changes
\* isResolved or resolvedAt.
C16_ResolvedAlertKeepsResolvedAt ==
  [][\A a \in alerts : a.isResolved => a \in alerts']_vars

\* C17: a command becomes success only from sent.
C17_SuccessOnlyAfterSent ==
  [][\A i \in DOMAIN commands :
       (commands[i].status # "success" /\ commands'[i].status = "success")
         => commands[i].status = "sent"]_vars

\* C18: the registered set changes for an endpoint only in a step after which
\* the endpoint's gateway record agrees with it: online when the endpoint
\* has entered the set, offline when it has left it.
C18_MemoryFollowsDurable ==
  [][\A e \in Endpoints :
       (Registered(e) # Registered(e)')
         => \E g \in gateways' :
              /\ g.endpoint = e
              /\ g.status = IF Registered(e)' THEN "online" ELSE "offline"]_vars

\* C19: a commands.updateStatus whose UPDATE fails (it asked for another
\* status than the stored one) does not answer success.
C19_FailedStatusWriteReported ==
  [][\A i \in DOMAIN commands, status \in CommandStatuses, error \in Opt(ErrorTexts) :
       ( /\ status # commands[i].status
         /\ commands' = updateCommandStatus(commands, commands[i].id, status,
                                            error, FALSE)
         /\ UNCHANGED <<now, gateways, registeredClients, alerts>> )
         => last'.result # "ok"]_vars

\* C20: a device that is Registered (in the registered set, its record
\* online) stops being so only through a deregister for its endpoint.
C20_LeavesRegisteredOnlyByDeregister ==
  [][\A e \in Endpoints :
       (RegisteredOnline(e) /\ ~RegisteredOnline(e)')
         => (last'.op = "deregister" /\ last'.arg = {e})]_vars

\* C22: a command has completedAt set exactly when its status is success
\* or failed.
C22_CompletedAtIffTerminal ==
  \A i \in DOMAIN commands :
    (commands[i].completedAt # {}) <=> (commands[i].status \in {"success", "failed"})

\* C23: a resources.setValue whose statements do not fail adds exactly one
\* row to the resource values and keeps every row that was there.
C23_RecordValueAppends ==
  [][\A resourceId \in ResourceIds, gatewayId \in KnownGatewayIds \cup {UnknownGatewayId},
        value \in Values :
       ( /\ resourceValues' = recordResourceValue(resourceValues,
                                 ResourceValueId(resourceId, now), resourceId,
                                 gatewayId, value, {}, "ok").table
         /\ last'.op = "resources.setValue"
         /\ UNCHANGED <<now, gateways, registeredClients>> )
         => /\ resourceValues \subseteq resourceValues'
            /\ Cardinality(resourceValues') = Cardinality(resourceValues) + 1]_vars

\* C24: every gateway record stays, with its id and endpoint, in every
\* step; and a register answered 2.01 for an endpoint that has a record
\* names that record's id and adds no record.
C24_RecordsKeptAndReopened ==
  [][/\ \A g \in gateways :
          \E h \in gateways' : h.id = g.id /\ h.endpoint = g.endpoint
     /\ \A e \in Endpoints :
          ( /\ GatewayOf(e) # {}
            /\ last'.op = "register" /\ last'.arg = {e} /\ last'.result = "2.01" )
            => /\ last'.events[1].gatewayId = TheOne(GatewayOf(e)).id
               /\ KnownGatewayIds' = KnownGatewayIds]_vars

\* A register at a later time than the record was made has reopened that
\* record.
C24_Witness ==
  /\ last.op = "register" /\ last.result = "2.01" /\ last.arg = {"e1"}
  /\ now > 0
  /\ \E g \in gateways :
       g.id = GatewayId("e1", 0) /\ g.lastSeen = {now} /\ g.status = "online"

\* C25: when a sent command goes back to pending (a retry) while a command
\* submitted after it for the same device is pending, whatever
\* listPendingCommands returns next lists the later-submitted command first.
C25_RetriedGoesToTail ==
  [][\A i, j \in DOMAIN commands :
       ( /\ i < j
         /\ commands[i].gatewayId = commands[j].gatewayId
         /\ commands[i].status = "sent" /\ commands'[i].status = "pending"
         /\ commands'[j].status = "pending" )
         => \A result \in listPendingCommands(commands', commands[i].gatewayId) :
              \A a, b \in DOMAIN result :
                (result[a].id = commands[j].id /\ result[b].id = commands[i].id)
                  => a < b]_vars

\* C29: the lastSeen of a gateway record changes only in a register or an
\* update of the record's endpoint.
C29_LastSeenOnlyByDevice ==
  [][\A g \in gateways, h \in gateways' :
       (h.id = g.id /\ h.lastSeen # g.lastSeen)
         => (last'.op \in {"register", "update"} /\ last'.arg = {g.endpoint})]_vars

C21_PerDeviceIsolation ==
  [][/\ \A q \in Requests :
          requests'[q] # requests[q]
            => \A b \in Endpoints \ {requests'[q].endpoint} :
                 DeviceState(b)' = DeviceState(b)
     /\ \A q \in Requests : InFlight(q) => ENABLED Resume(q)]_vars

\* A register for e1 ran from its INSERT to its answer while a register
\* for e2 was suspended at its UPDATE.
C21_Witness ==
  /\ requests["q2"].pc = "write"
  /\ requests["q2"].gatewayId = {GatewayId("e2", 0)}
  /\ requests["q1"].pc = "done" /\ requests["q1"].result = "2.01"
  /\ requests["q1"].gatewayId = {GatewayId("e1", 1)}
  /\ Registered("e1") /\ ~Registered("e2")

\* C26: whenever no request for an endpoint is in flight, the endpoint is
\* in the registered set exactly when it has a gateway record with status
\* "online".
C26_MemoryMatchesRecordWhenQuiet ==
  \A e \in Endpoints :
    (\A q \in Requests : InFlight(q) => requests[q].endpoint # e)
      => (Registered(e) <=> \E g \in gateways : g.endpoint = e /\ g.status = "online")

\* C27: when a CoAP request has been handled, res.end() has been called
\* exactly once on its response.
C27_AnsweredExactlyOnce ==
  last.op # "start" => res.ended = 1

\* C28: every value getLWM2MServer() has returned was, when it was
\* returned, a server that had completed start() and was listening.
C28_ReturnedServerListening ==
  \A c \in Callers :
    callers[c].pc = "returned" => callers[c].returnedState = "listening"

====
